---- MODULE Spec2Model ----
(***************************************************************************)
(* State-machine model of bastion_tunnels_inventory.py: one invocation of  *)
(* the script, from the lookup of the az binary to the exit of the         *)
(* interpreter, together with the two things it shares with the outside    *)
(* world: the cloud control plane (bastion listings, virtual machines) and *)
(* the OS process table.                                                   *)
(*                                                                         *)
(* Every external call of the script (a lookup, a read of /proc made by     *)
(* psutil, a Popen) is one atomic step, so the environment may change      *)
(* between any two calls.  An unhandled Python exception ends the run with *)
(* exit status 1 and is recorded in exc.                                   *)
(***************************************************************************)
EXTENDS Integers, Sequences, FiniteSets, TLC

\* ------------------------------------------------------------------ bounds
\* Hosts declared in the configuration document.
MaxHosts == 2
\* Bastion hosts listed per resource group while an inventory is built.
MaxRgBastions == 1
\* Hosts declared, and bastion hosts listed per resource group, in the builds
\* in which some hosts cannot be resolved.
MaxSkipHosts == 3
MaxSkipBastions == 2
\* Bastion hosts in the listing handed to bastion_name on its own.
MaxBastions == 3
\* Size of the pid space of the process table.
MaxPids == 3
\* Changes other processes make to the process table during one invocation.
MaxChurn == 2

\* ------------------------------------------------------------ value helpers
\* Python's None (also: key absent from the configuration).
None == "None"

Range(s) == {s[k] : k \in DOMAIN s}

SeqsUpTo(S, m) == UNION {[1..k -> S] : k \in 0..m}

\* A line on standard output produced by print(<str>).
Line(text) == [kind |-> "text", body |-> text]

\* json.dumps(obj, ...): a document line; the value is kept structured, the
\* indent records the pretty-print choice.
json_dumps(obj, indent) == [kind |-> "json", body |-> obj, indent |-> indent]

\* json.loads(line)
json_loads(line) == line.body

\* --------------------------------------------------------------- variables
VARIABLES
    args,        \* parsed command line: list_tunnels, kill_tunnels, list
    env,         \* az on PATH, `az extension list` result, credential, config file
    config,      \* parsed configuration document (when the file is readable)
    cloud,       \* control plane: bastion listing per resource group, existing VMs
    procs,       \* OS process table: live pid -> [cmdline, status]
    pc,          \* position of the script
    host,        \* index of the host the for loop of generate_inventory is at
    bastion,     \* local `bastion` of generate_inventory
    target_id,   \* local `target_id` of generate_inventory
    inventory,   \* the inventory dictionary under construction
    launched,    \* argv of every subprocess started by Popen, in order
    stdout,      \* lines printed so far
    exit_code,   \* exit status of the interpreter (meaningful once pc = "exited")
    exc,         \* unhandled exception that ended the run, or None
    excAt,       \* the position at which it was raised
    fatal,       \* which fatal condition of the spec's error table was hit
    ran,         \* which of the three commands have begun in this invocation
    scan,        \* the running call of list_tunnels(), and psutil's cache
    t,           \* loop variable t of the list / kill loops
    n,           \* len(list_tunnels()) the range() of the loop was built from
    tunnel_pids, \* list tunnel_pids of the kill command
    kill_at,     \* position of `for tunnel_pid in tunnel_pids`
    process,     \* psutil.Process of the kill loop: pid and creation time
    signalled,   \* pids that were sent SIGTERM by process.terminate()
    steady,      \* history: tunnel processes alive since the invocation began
    ret,         \* value returned by the bastion_name call made on its own
    churn        \* changes other processes have made to the process table

inVars    == <<args, env, config>>
buildVars == <<host, bastion, target_id, inventory, launched>>
outVars   == <<stdout, exit_code, exc, excAt, fatal>>
procVars  == <<scan, t, n, tunnel_pids, kill_at, process, signalled>>
vars == <<args, env, config, cloud, procs, pc, host, bastion, target_id,
          inventory, launched, stdout, exit_code, exc, excAt, fatal, ran,
          scan, t, n, tunnel_pids, kill_at, process, signalled, steady, ret,
          churn>>

\* --------------------------------------------------------- pure functions
\* shutil.which("az") when the binary is installed.
az_command == "/usr/bin/az"

\* check_extension(): `az extension list` failing, or not naming "bastion",
\* is False.
check_extension(output) ==
    IF output.rc # 0
    THEN FALSE
    ELSE \E k \in DOMAIN output.names : output.names[k] = "bastion"

\* The token list `tunnel` of list_tunnels().
tunnel == <<"network", "bastion", "tunnel", "--resource-group",
            "--target-resource-id">>

\* all(cmdline in proc.cmdline() for cmdline in tunnel): every token is an
\* element of the argv list.
IsTunnel(cmdline) == \A k \in DOMAIN tunnel : tunnel[k] \in Range(cmdline)

\* The loop of bastion_name over the listing: remembers the name of each item
\* it passes and returns None at the first item with enable_tunneling False.
RECURSIVE bastion_loop(_, _, _)
bastion_loop(response, k, name) ==
    IF k > Len(response)
    THEN name
    ELSE IF response[k].enable_tunneling = "False"
         THEN None
         ELSE bastion_loop(response, k + 1, response[k].name)

\* Mutation: the name is taken from the first item only.
RECURSIVE bastion_loop_first(_, _, _)
bastion_loop_first(response, k, name) ==
    IF k > Len(response)
    THEN name
    ELSE IF response[k].enable_tunneling = "False"
         THEN None
         ELSE bastion_loop_first(response, k + 1,
                                 IF name = None THEN response[k].name ELSE name)

bastion_name_first(resource_group) ==
    bastion_loop_first(cloud.bastions[resource_group], 1, None)

\* bastion_name(resource_group) against the current control plane.
bastion_name(resource_group) ==
    bastion_loop(cloud.bastions[resource_group], 1, None)

\* The id the control plane reports for a virtual machine.
VmId(resource_group, vm_name) ==
    "/resourceGroups/" \o resource_group \o "/virtualMachines/" \o vm_name

\* resource_id(resource_group, vm_name): None on ResourceNotFoundError.
resource_id(resource_group, vm_name) ==
    IF <<resource_group, vm_name>> \in cloud.vms
    THEN VmId(resource_group, vm_name)
    ELSE None

\* The argv built in generate_inventory for one host.
command(bastion_, resource_group, target_id_, ansible_port) ==
    <<az_command, "network", "bastion", "tunnel",
      "--name", bastion_,
      "--resource-group", resource_group,
      "--target-resource-id", target_id_,
      "--resource-port", "22",
      "--port", ToString(ansible_port)>>

\* Mutation: Popen that starts a child whatever the argv holds.
PopenAny(argv) == TRUE

\* subprocess.Popen(argv, shell=False) starts a child only when every element
\* of argv is a string; an element that is None raises TypeError before any
\* process is created.
Popen(argv) == \A k \in DOMAIN argv : argv[k] # None

\* The command line of the child Popen(argv) leaves behind: az is a script,
\* so exec runs the interpreter its first line names, with argv after it.
Exec(argv) == <<"/usr/bin/python3">> \o argv

\* The child of Popen(argv) while its exec has not settled: it is there, and
\* its command line reads as empty.
Starting(argv, create_time) ==
    [cmdline |-> <<>>, status |-> "sleeping", create_time |-> create_time,
     argv |-> argv]

\* The same child once exec has settled.
Settled(proc) ==
    [cmdline |-> Exec(proc.argv), status |-> proc.status,
     create_time |-> proc.create_time]

\* The value of the argv element that follows `flag`.
ArgOf(argv, flag) ==
    LET k == CHOOSE j \in DOMAIN argv : argv[j] = flag IN argv[k + 1]

\* --------------------------------------------------------------- input sets
ResourceGroups == {"rg1", "rg2"}
BastionNames == {"bst1", "bst2"}
Tunneling == {"True", "False", None}

HostName(k) == "vm" \o ToString(k)

\* One host entry of the configuration: resource_group and ansible_port are
\* always there, ansible_host and ansible_user only when given.
HostValue(rg, port, ah, au) ==
    LET base == [resource_group |-> rg, ansible_port |-> port]
        withHost == IF ah = None THEN base
                    ELSE [k \in DOMAIN base \cup {"ansible_host"} |->
                            IF k = "ansible_host" THEN ah ELSE base[k]]
    IN IF au = None THEN withHost
       ELSE [k \in DOMAIN withHost \cup {"ansible_user"} |->
               IF k = "ansible_user" THEN au ELSE withHost[k]]

HostChoices == ResourceGroups \X {None, "10.0.0.4"} \X {None, "azureuser"}

ConfigOf(choice) ==
    [group |-> "bastion_tunnels",
     hosts |-> [k \in DOMAIN choice |->
                  [name  |-> HostName(k),
                   value |-> HostValue(choice[k][1], 50000 + k,
                                       choice[k][2], choice[k][3])]]]

Configs == {ConfigOf(c) : c \in SeqsUpTo(HostChoices, MaxHosts)}

\* Listings of a resource group during a build: the bastions of a group have
\* distinct names.
RgListingsUpTo(max) ==
    {[k \in DOMAIN f |-> [name |-> "bst" \o ToString(k),
                          enable_tunneling |-> f[k]]] :
        f \in SeqsUpTo({"True", "False"}, max)}

RgListings == RgListingsUpTo(MaxRgBastions)

\* Listings handed to bastion_name on its own.
Listings ==
    SeqsUpTo([name : BastionNames, enable_tunneling : Tunneling], MaxBastions)

\* The VMs the configuration names.
ConfigVms(cfg) ==
    {<<cfg.hosts[k].value.resource_group, cfg.hosts[k].name>> :
        k \in DOMAIN cfg.hosts}

Outputs ==
    {[rc |-> 1, names |-> <<>>],
     [rc |-> 0, names |-> <<>>],
     [rc |-> 0, names |-> <<"ssh">>],
     [rc |-> 0, names |-> <<"ssh", "bastion">>]}

EnvOk ==
    [az |-> TRUE, extensions |-> [rc |-> 0, names |-> <<"ssh", "bastion">>],
     credential |-> TRUE, config_file |-> "ok"]

Envs ==
    [az : BOOLEAN, extensions : Outputs, credential : BOOLEAN,
     config_file : {"missing", "empty", "ok"}]

Pids == 1..MaxPids

Cmdlines ==
    {Exec(command("bst1", "rg1", VmId("rg1", "vm1"), 50001)),
     Exec(<<az_command, "network", "bastion", "tunnel", "--name", "bst1",
            "--resource-group", "rg1">>),
     <<"sleep", "60">>}

\* A process that died and was not reaped by its parent: it keeps its pid and
\* its creation time and has no command line any more.
Zombie(create_time) ==
    [cmdline |-> <<>>, status |-> "zombie", create_time |-> create_time]

\* The processes that run, created at the given time.  The clock of creation
\* times is the number of changes made to the process table.
Running(create_time) ==
    [cmdline : Cmdlines, status : {"sleeping"}, create_time : {create_time}]

\* The processes there are when the script starts.
Processes == Running(0) \cup {Zombie(0)}

NoProcs == <<>>

\* Every process table over the pid space.
ProcTables == UNION {[live -> Processes] : live \in SUBSET Pids}

DefaultConfig == ConfigOf(<<<<"rg1", None, None>>>>)
DefaultCloud ==
    [bastions |-> [rg \in ResourceGroups |->
                     <<[name |-> "bst1", enable_tunneling |-> "True"]>>],
     vms |-> {<<"rg1", "vm1">>}]

\* ------------------------------------------------------------ initial state
\* No call of list_tunnels() is running and psutil has cached no Process.
ScanIdle ==
    [phase |-> "idle", pids |-> <<>>, idx |-> 0, tok |-> 0, cmdline |-> <<>>,
     out |-> <<>>, pmap |-> {}]

\* list_tunnels() has returned; the Process objects process_iter() has made
\* stay in psutil's module-level _pmap.
Returned(s) == [ScanIdle EXCEPT !.pmap = s.pmap]

\* The state of the interpreter before the statement at `start` runs.
Fresh(start) ==
    /\ pc = start
    /\ host = 0
    /\ bastion = None
    /\ target_id = None
    /\ inventory = <<>>
    /\ launched = <<>>
    /\ stdout = <<>>
    /\ exit_code = 0
    /\ exc = None
    /\ excAt = None
    /\ fatal = None
    /\ ran = {}
    /\ scan = ScanIdle
    /\ t = 0
    /\ n = 0
    /\ tunnel_pids = <<>>
    /\ kill_at = 0
    /\ process = [pid |-> 0, create_time |-> 0]
    /\ signalled = {}
    /\ steady = {p \in DOMAIN procs : IsTunnel(procs[p].cmdline)}
    /\ ret = "unset"
    /\ churn = 0

\* A build with a healthy environment, over every configuration and cloud.
InitBuild ==
    /\ args = [list_tunnels |-> FALSE, kill_tunnels |-> FALSE, list |-> FALSE]
    /\ env = EnvOk
    /\ config \in Configs
    /\ cloud \in {[bastions |-> b, vms |-> v] :
                    b \in [ResourceGroups -> RgListings],
                    v \in SUBSET ConfigVms(config)}
    /\ procs = NoProcs
    /\ Fresh("which_az")

\* A build, with a healthy environment, of every configuration whose hosts
\* give no optional key.  It starts in the cloud in which every host
\* resolves; CloudChange takes it to every other cloud a host can meet.
InitRace ==
    /\ args = [list_tunnels |-> FALSE, kill_tunnels |-> FALSE, list |-> FALSE]
    /\ env = EnvOk
    /\ config \in {ConfigOf(c) :
                     c \in SeqsUpTo(ResourceGroups \X {None} \X {None},
                                    MaxHosts)}
    /\ cloud = [DefaultCloud EXCEPT !.vms = ConfigVms(config)]
    /\ procs = NoProcs
    /\ Fresh("which_az")

\* The choices of up to MaxSkipHosts hosts that give no optional key.  The
\* first host is in rg1: the code treats the names of the groups alike, and
\* the clouds below give every listing to either group.
SkipChoices ==
    {c \in SeqsUpTo(ResourceGroups \X {None} \X {None}, MaxSkipHosts) :
        c # <<>> => c[1][1] = "rg1"}

\* A build, with a healthy environment, of every such configuration, over
\* every cloud that lists up to MaxSkipBastions bastions per resource group.
InitSkip ==
    /\ args = [list_tunnels |-> FALSE, kill_tunnels |-> FALSE, list |-> FALSE]
    /\ env = EnvOk
    /\ config \in {ConfigOf(c) : c \in SkipChoices}
    /\ cloud \in {[bastions |-> b, vms |-> v] :
                    b \in [ResourceGroups -> RgListingsUpTo(MaxSkipBastions)],
                    v \in SUBSET ConfigVms(config)}
    /\ procs = NoProcs
    /\ Fresh("which_az")

\* A build of the default configuration in every environment.
InitEnv ==
    /\ args \in [list_tunnels : {FALSE}, kill_tunnels : {FALSE}, list : BOOLEAN]
    /\ env \in Envs
    /\ config = DefaultConfig
    /\ cloud = DefaultCloud
    /\ procs = NoProcs
    /\ Fresh("which_az")

\* The list / kill commands over every process table.
InitProcs ==
    /\ args \in {a \in [list_tunnels : BOOLEAN, kill_tunnels : BOOLEAN,
                        list : {FALSE}] : a.list_tunnels \/ a.kill_tunnels}
    /\ env \in {e \in Envs : e = EnvOk \/ e = [EnvOk EXCEPT !.az = FALSE]}
    /\ config = DefaultConfig
    /\ cloud = DefaultCloud
    /\ procs \in ProcTables
    /\ Fresh("which_az")

\* ----------------------------------------------------------- script: exits
\* sys.exit(code) after the prints made so far.
SysExit(code, kind) ==
    /\ pc' = "exited"
    /\ exit_code' = code
    /\ fatal' = kind
    /\ UNCHANGED <<exc, excAt>>

\* An exception nobody catches: traceback on stderr, exit status 1.
Raise(exception, kind) ==
    /\ pc' = "exited"
    /\ exit_code' = 1
    /\ exc' = exception
    /\ excAt' = pc
    /\ fatal' = kind
    /\ UNCHANGED stdout

\* ------------------------------------------------ script: lines 64 to 67
CheckAz ==
    /\ pc = "which_az"
    /\ IF ~env.az
       THEN /\ stdout' = Append(stdout, Line("The Azure CLI is not installed."))
            /\ SysExit(1, "ToolNotFound")
       ELSE /\ pc' = "if_build"
            /\ UNCHANGED outVars
    /\ UNCHANGED <<inVars, cloud, procs, buildVars, procVars, ran, steady,
                   ret, churn>>

\* ---------------------------------------------- script: lines 222 to 247
\* if not args.list_tunnels and not args.kill_tunnels:
IfBuild ==
    /\ pc = "if_build"
    /\ IF ~args.list_tunnels /\ ~args.kill_tunnels
       THEN /\ pc' = "check_extension"
            /\ ran' = ran \cup {"build"}
       ELSE /\ pc' = "if_list_tunnels"
            /\ UNCHANGED ran
    /\ UNCHANGED <<inVars, cloud, procs, buildVars, outVars, procVars,
                   steady, ret, churn>>

\* if check_extension() is False: print, exit 1
CheckExtension ==
    /\ pc = "check_extension"
    /\ IF ~check_extension(env.extensions)
       THEN /\ stdout' = Append(stdout,
                Line("The Azure CLI bastion extension is not installed."))
            /\ SysExit(1, "CapabilityMissing")
       ELSE /\ pc' = "get_token"
            /\ UNCHANGED outVars
    /\ UNCHANGED <<inVars, cloud, procs, buildVars, procVars, ran, steady,
                   ret, churn>>

\* credential.get_token(...): CredentialUnavailableError -> sys.exit(1), with
\* nothing printed.
GetToken ==
    /\ pc = "get_token"
    /\ IF ~env.credential
       THEN /\ SysExit(1, "CredentialUnavailable")
            /\ UNCHANGED stdout
       ELSE /\ pc' = "open_config"
            /\ UNCHANGED outVars
    /\ UNCHANGED <<inVars, cloud, procs, buildVars, procVars, ran, steady,
                   ret, churn>>

\* with Path(args.config_file).open("r") as read_config: open() raises
\* FileNotFoundError for a missing file; an open file object is never falsy,
\* so the "not found" print of line 235 cannot run.
LoadConfig ==
    /\ pc = "open_config"
    /\ IF env.config_file = "missing"
       THEN Raise("FileNotFoundError", "ConfigUnreadable")
       ELSE /\ pc' = "generate_inventory"
            /\ UNCHANGED outVars
    /\ UNCHANGED <<inVars, cloud, procs, buildVars, procVars, ran, steady,
                   ret, churn>>

\* Where the for loop of generate_inventory goes for host number k.
ForHost(k) ==
    IF k > Len(config.hosts) THEN "print_inventory" ELSE "bastion_check"

\* generate_inventory, lines 113 to 119.  yaml.safe_load of an empty file is
\* None, and None has no keys().
GenerateInventoryBegin ==
    /\ pc = "generate_inventory"
    /\ IF env.config_file = "empty"
       THEN /\ Raise("AttributeError", "ConfigEmpty")
            /\ UNCHANGED <<host, inventory>>
       ELSE /\ inventory' = (config.group :> [hosts |-> <<>>])
                              @@ ("_meta" :> [hostvars |-> <<>>])
            /\ host' = 1
            /\ pc' = ForHost(1)
            /\ UNCHANGED outVars
    /\ UNCHANGED <<inVars, cloud, procs, bastion, target_id, launched,
                   procVars, ran, steady, ret, churn>>

\* if bastion_name(value["resource_group"]) is None: print, sys.exit(1)
BastionCheck ==
    /\ pc = "bastion_check"
    /\ LET value == config.hosts[host].value IN
       IF bastion_name(value.resource_group) = None
       THEN /\ stdout' = Append(stdout,
                Line("A valid bastion host was not found in resource group "
                     \o value.resource_group \o "."))
            /\ SysExit(1, "BastionNotFound")
       ELSE /\ pc' = "bastion_assign"
            /\ UNCHANGED outVars
    /\ UNCHANGED <<inVars, cloud, procs, buildVars, procVars, ran, steady,
                   ret, churn>>

\* else: bastion = bastion_name(value["resource_group"])  (a second lookup)
BastionAssign ==
    /\ pc = "bastion_assign"
    /\ bastion' = bastion_name(config.hosts[host].value.resource_group)
    /\ pc' = "resource_check"
    /\ UNCHANGED <<inVars, cloud, procs, host, target_id, inventory, launched,
                   outVars, procVars, ran, steady, ret, churn>>

\* Mutation: the host whose lookup failed is not skipped.
ResourceCheckNoSkip ==
    /\ pc = "resource_check"
    /\ pc' = "resource_assign"
    /\ UNCHANGED <<inVars, cloud, procs, buildVars, outVars, procVars, ran,
                   steady, ret, churn>>

\* if resource_id(value["resource_group"], host) is None: pass
ResourceCheck ==
    /\ pc = "resource_check"
    /\ LET h == config.hosts[host] IN
       IF resource_id(h.value.resource_group, h.name) = None
       THEN /\ host' = host + 1
            /\ pc' = ForHost(host + 1)
       ELSE /\ pc' = "resource_assign"
            /\ UNCHANGED host
    /\ UNCHANGED <<inVars, cloud, procs, bastion, target_id, inventory,
                   launched, outVars, procVars, ran, steady, ret, churn>>

\* else: target_id = resource_id(value["resource_group"], host)  (a second
\* lookup)
ResourceAssign ==
    /\ pc = "resource_assign"
    /\ LET h == config.hosts[host] IN
       target_id' = resource_id(h.value.resource_group, h.name)
    /\ pc' = "popen"
    /\ UNCHANGED <<inVars, cloud, procs, host, bastion, inventory, launched,
                   outVars, procVars, ran, steady, ret, churn>>

\* Lines 135 to 164: build the argv, start the tunnel, append the host to the
\* group and copy every key of its configuration entry into its hostvars.
\* When Popen returns the process table has a new process under a pid that
\* was free (fork fails when there is none).  Its command line reads as the
\* one exec gives it, or still as empty: exec may not have settled yet.
LaunchTunnel ==
    /\ pc = "popen"
    /\ LET h == config.hosts[host]
           argv == command(bastion, h.value.resource_group, target_id,
                           h.value.ansible_port)
           group == inventory[config.group]
           meta == inventory["_meta"]
       IN IF ~Popen(argv)
          THEN /\ Raise("TypeError", None)
               /\ UNCHANGED <<host, inventory, launched, procs>>
          ELSE IF Pids \ DOMAIN procs = {}
          THEN /\ Raise("BlockingIOError", None)
               /\ UNCHANGED <<host, inventory, launched, procs>>
          ELSE /\ \E child \in Pids \ DOMAIN procs,
                       proc \in {Settled(Starting(argv, churn + 1)),
                                 Starting(argv, churn + 1)} :
                    procs' = (child :> proc) @@ procs
               /\ launched' = Append(launched, argv)
               /\ inventory' =
                    (config.group :> [hosts |-> Append(group.hosts, h.name)])
                    @@ ("_meta" :> [hostvars |->
                          (h.name :> h.value) @@ meta.hostvars])
               /\ host' = host + 1
               /\ pc' = ForHost(host + 1)
               /\ UNCHANGED outVars
    /\ UNCHANGED <<inVars, cloud, bastion, target_id, procVars, ran, steady,
                   ret, churn>>

\* The exec of a launched child settles while the script runs on: its command
\* line now reads as exec gave it.
ChildExec ==
    /\ pc # "exited"
    /\ \E child \in DOMAIN procs :
        /\ "argv" \in DOMAIN procs[child]
        /\ procs' = [procs EXCEPT ![child] = Settled(@)]
    /\ UNCHANGED <<inVars, cloud, pc, buildVars, outVars, procVars, ran,
                   steady, ret, churn>>

\* Lines 240 to 247: print(json.dumps(inventory, sort_keys=True[, indent=2]))
PrintInventory ==
    /\ pc = "print_inventory"
    /\ stdout' = Append(stdout,
                        json_dumps(inventory, IF args.list THEN "2" ELSE None))
    /\ pc' = "if_list_tunnels"
    /\ UNCHANGED <<inVars, cloud, procs, buildVars, exit_code, exc, excAt,
                   fatal, procVars, ran, steady, ret, churn>>

\* ---------------------------------------------- script: list_tunnels()
\* The places list_tunnels() is called from.
ScanSites == {"list_len", "list_range", "list_item", "kill_range", "kill_item"}

\* psutil.pids(): the pids alive now, ascending.
SortedPids ==
    LET alive == DOMAIN procs IN
    [k \in 1..Cardinality(alive) |->
        CHOOSE p \in alive : Cardinality({q \in alive : q < p}) = k - 1]

\* list_tunnels() is entered: psutil.process_iter() takes its snapshot of the
\* pids and forgets the cached Process objects whose pid is not in it.
ScanBegin ==
    /\ pc \in ScanSites
    /\ scan.phase = "idle"
    /\ scan' = [scan EXCEPT !.phase = "iter",
                            !.pids = SortedPids,
                            !.idx = 1,
                            !.out = <<>>,
                            !.pmap = @ \cap DOMAIN procs]
    /\ UNCHANGED <<inVars, cloud, procs, pc, buildVars, outVars, t, n,
                   tunnel_pids, kill_at, process, signalled, ran, steady,
                   ret, churn>>

\* process_iter() comes to the next pid of its snapshot.  A pid it has a
\* cached Process object for is yielded as it is; for a new pid it builds the
\* Process object, which raises NoSuchProcess inside process_iter when the
\* pid is gone by now: that pid is dropped.  The loop body starts with the
\* first token of `tunnel`.
ScanYield ==
    /\ pc \in ScanSites
    /\ scan.phase = "iter"
    /\ scan.idx <= Len(scan.pids)
    /\ LET p == scan.pids[scan.idx] IN
       IF p \notin scan.pmap /\ p \notin DOMAIN procs
       THEN scan' = [scan EXCEPT !.idx = @ + 1]
       ELSE scan' = [scan EXCEPT !.phase = "match",
                                 !.tok = 1,
                                 !.pmap = @ \cup {p}]
    /\ UNCHANGED <<inVars, cloud, procs, pc, buildVars, outVars, t, n,
                   tunnel_pids, kill_at, process, signalled, ran, steady,
                   ret, churn>>

\* What proc.cmdline() raises now for pid p, or None: NoSuchProcess for a pid
\* that is gone, ZombieProcess for one that died and was not reaped.
CmdlineRaises(p) ==
    IF p \notin DOMAIN procs THEN "NoSuchProcess"
    ELSE IF procs[p].status = "zombie" THEN "ZombieProcess"
    ELSE None

\* Line 97, one step of all(cmdline in proc.cmdline() for cmdline in tunnel):
\* proc.cmdline() is read again for every token, and the first token that is
\* not an element of it ends the test.  list_tunnels catches nothing.
ScanMatch ==
    /\ pc \in ScanSites
    /\ scan.phase = "match"
    /\ LET p == scan.pids[scan.idx] IN
       IF CmdlineRaises(p) # None
       THEN /\ Raise(CmdlineRaises(p), None)
            /\ UNCHANGED scan
       ELSE /\ scan' =
                 IF tunnel[scan.tok] \notin Range(procs[p].cmdline)
                 THEN [scan EXCEPT !.phase = "iter", !.idx = @ + 1]
                 ELSE IF scan.tok < Len(tunnel)
                 THEN [scan EXCEPT !.tok = @ + 1]
                 ELSE [scan EXCEPT !.phase = "cmdline"]
            /\ UNCHANGED <<pc, outVars>>
    /\ UNCHANGED <<inVars, cloud, procs, buildVars, t, n, tunnel_pids,
                   kill_at, process, signalled, ran, steady, ret, churn>>

\* Line 102: "cmdline": proc.cmdline(), read once more.
ScanCmdline ==
    /\ pc \in ScanSites
    /\ scan.phase = "cmdline"
    /\ LET p == scan.pids[scan.idx] IN
       IF CmdlineRaises(p) # None
       THEN /\ Raise(CmdlineRaises(p), None)
            /\ UNCHANGED scan
       ELSE /\ scan' = [scan EXCEPT !.phase = "status",
                                    !.cmdline = procs[p].cmdline]
            /\ UNCHANGED <<pc, outVars>>
    /\ UNCHANGED <<inVars, cloud, procs, buildVars, t, n, tunnel_pids,
                   kill_at, process, signalled, ran, steady, ret, churn>>

\* Lines 98 to 106: "status": proc.status(), which is "zombie" for a zombie
\* and raises NoSuchProcess for a pid that is gone; the entry is appended.
ScanStatus ==
    /\ pc \in ScanSites
    /\ scan.phase = "status"
    /\ LET p == scan.pids[scan.idx] IN
       IF p \notin DOMAIN procs
       THEN /\ Raise("NoSuchProcess", None)
            /\ UNCHANGED scan
       ELSE /\ scan' = [scan EXCEPT
                    !.phase = "iter",
                    !.idx = @ + 1,
                    !.cmdline = <<>>,
                    !.out = Append(@, json_dumps(
                                [pid |-> p, cmdline |-> scan.cmdline,
                                 status |-> procs[p].status], None))]
            /\ UNCHANGED <<pc, outVars>>
    /\ UNCHANGED <<inVars, cloud, procs, buildVars, t, n, tunnel_pids,
                   kill_at, process, signalled, ran, steady, ret, churn>>

\* list_tunnels() has returned: the for loop over process_iter() is exhausted.
ScanDone == scan.phase = "iter" /\ scan.idx > Len(scan.pids)

\* ---------------------------------------------- script: lines 249 to 254
\* if args.list_tunnels:
IfListTunnels ==
    /\ pc = "if_list_tunnels"
    /\ IF args.list_tunnels
       THEN /\ pc' = "list_len"
            /\ ran' = ran \cup {"list"}
       ELSE /\ pc' = "if_kill_tunnels"
            /\ UNCHANGED ran
    /\ UNCHANGED <<inVars, cloud, procs, buildVars, outVars, procVars,
                   steady, ret, churn>>

\* if len(list_tunnels()) > 0: ... else: print("No active tunnels found.")
ListLen ==
    /\ pc = "list_len"
    /\ ScanDone
    /\ scan' = Returned(scan)
    /\ IF Len(scan.out) > 0
       THEN /\ pc' = "list_range"
            /\ UNCHANGED stdout
       ELSE /\ stdout' = Append(stdout, Line("No active tunnels found."))
            /\ pc' = "if_kill_tunnels"
    /\ UNCHANGED <<inVars, cloud, procs, buildVars, exit_code, exc, excAt,
                   fatal, t, n, tunnel_pids, kill_at, process, signalled,
                   ran, steady, ret, churn>>

\* for t in range(len(list_tunnels())):
ListRange ==
    /\ pc = "list_range"
    /\ ScanDone
    /\ scan' = Returned(scan)
    /\ n' = Len(scan.out)
    /\ t' = 0
    /\ pc' = IF Len(scan.out) > 0 THEN "list_item" ELSE "if_kill_tunnels"
    /\ UNCHANGED <<inVars, cloud, procs, buildVars, outVars, tunnel_pids,
                   kill_at, process, signalled, ran, steady, ret, churn>>

\* print(list_tunnels()[t]): the list is scanned again for every t.
ListItem ==
    /\ pc = "list_item"
    /\ ScanDone
    /\ IF t >= Len(scan.out)
       THEN /\ Raise("IndexError", None)
            /\ UNCHANGED <<scan, t>>
       ELSE /\ stdout' = Append(stdout, scan.out[t + 1])
            /\ scan' = Returned(scan)
            /\ t' = t + 1
            /\ pc' = IF t + 1 < n THEN "list_item" ELSE "if_kill_tunnels"
            /\ UNCHANGED <<exit_code, exc, excAt, fatal>>
    /\ UNCHANGED <<inVars, cloud, procs, buildVars, n, tunnel_pids, kill_at,
                   process, signalled, ran, steady, ret, churn>>

\* ---------------------------------------------- script: lines 256 to 267
\* if args.kill_tunnels: tunnel_pids = []; falling off the end of the script
\* exits with status 0.
IfKillTunnels ==
    /\ pc = "if_kill_tunnels"
    /\ IF args.kill_tunnels
       THEN /\ pc' = "kill_range"
            /\ ran' = ran \cup {"kill"}
            /\ tunnel_pids' = <<>>
       ELSE /\ pc' = "exited"
            /\ UNCHANGED <<ran, tunnel_pids>>
    /\ UNCHANGED <<inVars, cloud, procs, buildVars, outVars, scan, t, n,
                   kill_at, process, signalled, steady, ret, churn>>

\* for t in range(len(list_tunnels())):
KillRange ==
    /\ pc = "kill_range"
    /\ ScanDone
    /\ scan' = Returned(scan)
    /\ n' = Len(scan.out)
    /\ t' = 0
    /\ pc' = IF Len(scan.out) > 0 THEN "kill_item" ELSE "kill_check"
    /\ UNCHANGED <<inVars, cloud, procs, buildVars, outVars, tunnel_pids,
                   kill_at, process, signalled, ran, steady, ret, churn>>

\* tunnel_pids.append(json.loads(list_tunnels()[t])["pid"])
KillItem ==
    /\ pc = "kill_item"
    /\ ScanDone
    /\ IF t >= Len(scan.out)
       THEN /\ Raise("IndexError", None)
            /\ UNCHANGED <<scan, t, tunnel_pids>>
       ELSE /\ tunnel_pids' = Append(tunnel_pids, json_loads(scan.out[t + 1]).pid)
            /\ scan' = Returned(scan)
            /\ t' = t + 1
            /\ pc' = IF t + 1 < n THEN "kill_item" ELSE "kill_check"
            /\ UNCHANGED outVars
    /\ UNCHANGED <<inVars, cloud, procs, buildVars, n, kill_at, process,
                   signalled, ran, steady, ret, churn>>

\* if len(tunnel_pids) > 0: ... else: print("No active tunnels found.")
KillCheck ==
    /\ pc = "kill_check"
    /\ IF Len(tunnel_pids) > 0
       THEN /\ pc' = "kill_process"
            /\ kill_at' = 1
            /\ UNCHANGED stdout
       ELSE /\ stdout' = Append(stdout, Line("No active tunnels found."))
            /\ pc' = "exited"
            /\ UNCHANGED kill_at
    /\ UNCHANGED <<inVars, cloud, procs, buildVars, exit_code, exc, excAt,
                   fatal, scan, t, n, tunnel_pids, process, signalled, ran,
                   steady, ret, churn>>

\* Line 263, process = psutil.Process(tunnel_pid): the object remembers the
\* pid and the creation time of the process that has it now.  It raises
\* NoSuchProcess for a pid that does not exist, and nothing catches it.
KillProcess ==
    /\ pc = "kill_process"
    /\ LET tunnel_pid == tunnel_pids[kill_at] IN
       IF tunnel_pid \notin DOMAIN procs
       THEN /\ Raise("NoSuchProcess", None)
            /\ UNCHANGED process
       ELSE /\ process' = [pid |-> tunnel_pid,
                           create_time |-> procs[tunnel_pid].create_time]
            /\ pc' = "kill_terminate"
            /\ UNCHANGED outVars
    /\ UNCHANGED <<inVars, cloud, procs, buildVars, scan, t, n, tunnel_pids,
                   kill_at, signalled, ran, steady, ret, churn>>

\* Line 264, process.terminate(), first half: psutil looks the pid up again
\* and raises NoSuchProcess when another process has it now (another creation
\* time).  A pid that is gone is left to the signal to find out.
KillTerminate ==
    /\ pc = "kill_terminate"
    /\ IF /\ process.pid \in DOMAIN procs
          /\ procs[process.pid].create_time # process.create_time
       THEN Raise("NoSuchProcess", None)
       ELSE /\ pc' = "kill_signal"
            /\ UNCHANGED outVars
    /\ UNCHANGED <<inVars, cloud, procs, buildVars, scan, t, n, tunnel_pids,
                   kill_at, process, signalled, ran, steady, ret, churn>>

\* Lines 264 and 265, process.terminate(), second half, and the print:
\* SIGTERM is sent to the pid, which raises NoSuchProcess when no process has
\* it; a zombie takes the signal.  The process exits later.
KillSignal ==
    /\ pc = "kill_signal"
    /\ IF process.pid \notin DOMAIN procs
       THEN /\ Raise("NoSuchProcess", None)
            /\ UNCHANGED <<signalled, kill_at>>
       ELSE /\ signalled' = signalled \cup {process.pid}
            /\ stdout' = Append(stdout,
                 Line("Terminated tunnel process with PID "
                      \o ToString(tunnel_pids[kill_at]) \o "."))
            /\ kill_at' = kill_at + 1
            /\ pc' = IF kill_at < Len(tunnel_pids)
                     THEN "kill_process" ELSE "exited"
            /\ UNCHANGED <<exit_code, exc, excAt, fatal>>
    /\ UNCHANGED <<inVars, cloud, procs, buildVars, scan, t, n, tunnel_pids,
                   process, ran, steady, ret, churn>>

\* -------------------------------------------------------------- environment
\* The places at which the process table is read.
ProcSites ==
    ScanSites \cup {"kill_check", "kill_process", "kill_terminate",
                    "kill_signal"}

\* A process is gone from the table: it exited (on its own, or because it was
\* sent SIGTERM) and was reaped.
ProcExit ==
    /\ pc \in ProcSites
    /\ churn < MaxChurn
    /\ churn' = churn + 1
    /\ \E p \in DOMAIN procs :
        /\ procs' = [q \in DOMAIN procs \ {p} |-> procs[q]]
        /\ steady' = steady \ {p}
    /\ UNCHANGED <<inVars, cloud, pc, buildVars, outVars, procVars, ran, ret>>

\* A process dies and its parent does not reap it: it stays as a zombie.
ProcDie ==
    /\ pc \in ProcSites
    /\ churn < MaxChurn
    /\ churn' = churn + 1
    /\ \E p \in DOMAIN procs :
        /\ procs[p].status # "zombie"
        /\ procs' = [procs EXCEPT ![p] = Zombie(@.create_time)]
        /\ steady' = steady \ {p}
    /\ UNCHANGED <<inVars, cloud, pc, buildVars, outVars, procVars, ran, ret>>

\* A process replaces its image with exec: same pid, same creation time,
\* another command line.
ProcExec ==
    /\ pc \in ProcSites
    /\ churn < MaxChurn
    /\ churn' = churn + 1
    /\ \E p \in DOMAIN procs, cmdline \in Cmdlines :
        /\ procs[p].status # "zombie"
        /\ procs[p].cmdline # cmdline
        /\ procs' = [procs EXCEPT ![p].cmdline = cmdline]
        /\ steady' = steady \ {p}
    /\ UNCHANGED <<inVars, cloud, pc, buildVars, outVars, procVars, ran, ret>>

\* A process starts and is given a free pid.
ProcStart ==
    /\ pc \in ProcSites
    /\ churn < MaxChurn
    /\ churn' = churn + 1
    /\ \E p \in Pids \ DOMAIN procs, proc \in Running(churn + 1) :
        procs' = (p :> proc) @@ procs
    /\ UNCHANGED <<inVars, cloud, pc, buildVars, outVars, procVars, ran,
                   steady, ret>>

\* The places at which the build asks the control plane: the two calls of
\* bastion_name and the two calls of resource_id made for a host.
BuildSites == {"bastion_check", "bastion_assign", "resource_check",
               "resource_assign"}

\* The control plane changes while the inventory is built: the bastions of a
\* resource group are replaced, or a VM is created or deleted.  The build
\* reads nothing but the group and the VM of the host it is at, the group in
\* the two calls of bastion_name and the VM in the two calls of resource_id.
\* A change is taken before a lookup that reads it: one made at any other
\* time shows at the next such lookup, where it is taken.
CloudChange ==
    /\ pc \in BuildSites
    /\ LET h == config.hosts[host]
           rg == h.value.resource_group
           vm == <<rg, h.name>>
       IN \/ /\ pc \in {"bastion_check", "bastion_assign"}
             /\ \E l \in RgListings :
                   /\ l # cloud.bastions[rg]
                   /\ cloud' = [cloud EXCEPT !.bastions[rg] = l]
          \/ /\ pc \in {"resource_check", "resource_assign"}
             /\ cloud' = [cloud EXCEPT !.vms =
                            IF vm \in @ THEN @ \ {vm} ELSE @ \cup {vm}]
    /\ UNCHANGED <<inVars, procs, pc, buildVars, outVars, procVars, ran,
                   steady, ret, churn>>

\* ------------------------------------------------- bastion_name on its own
InitBastion ==
    /\ args = [list_tunnels |-> FALSE, kill_tunnels |-> FALSE, list |-> FALSE]
    /\ env = EnvOk
    /\ config = DefaultConfig
    /\ cloud \in {[bastions |-> [rg \in ResourceGroups |->
                                   IF rg = "rg1" THEN l ELSE <<>>],
                   vms |-> {}] : l \in Listings}
    /\ procs = NoProcs
    /\ Fresh("call_bastion_name")

CallBastionName ==
    /\ pc = "call_bastion_name"
    /\ ret' = bastion_name("rg1")
    /\ pc' = "returned"
    /\ UNCHANGED <<inVars, cloud, procs, buildVars, outVars, procVars, ran,
                   steady, churn>>

\* ----------------------------------------------------------- specifications
Build ==
    \/ CheckExtension \/ GetToken \/ LoadConfig \/ GenerateInventoryBegin
    \/ BastionCheck \/ BastionAssign \/ ResourceCheck \/ ResourceAssign
    \/ LaunchTunnel \/ ChildExec \/ PrintInventory

Dispatch == CheckAz \/ IfBuild \/ IfListTunnels \/ IfKillTunnels

Tunnels ==
    \/ ScanBegin \/ ScanYield \/ ScanMatch \/ ScanCmdline \/ ScanStatus
    \/ ListLen \/ ListRange \/ ListItem
    \/ KillRange \/ KillItem \/ KillCheck \/ KillProcess \/ KillTerminate
    \/ KillSignal

\* One invocation against a control plane and a process table that nothing
\* changes but the script and the children it starts.
Init == InitBuild \/ InitEnv \/ InitProcs
Next == Dispatch \/ Build \/ Tunnels
Spec == Init /\ [][Next]_vars

\* A build in which some hosts cannot be resolved.
NextSkip == Dispatch \/ Build
SpecSkip == InitSkip /\ [][NextSkip]_vars

\* A build while the control plane changes.
NextRace == Dispatch \/ Build \/ CloudChange
SpecRace == InitRace /\ [][NextRace]_vars

\* The list command, or the kill command, while processes start and exit.
NextProcs ==
    Dispatch \/ Tunnels \/ ProcExit \/ ProcDie \/ ProcExec \/ ProcStart
InitChurn == InitProcs /\ ~(args.list_tunnels /\ args.kill_tunnels)
SpecProcs == InitChurn /\ [][NextProcs]_vars

\* bastion_name applied to every listing.
NextBastion == CallBastionName
SpecBastion == InitBastion /\ [][NextBastion]_vars

\* =================================================================== claims
\* Vocabulary of the claims, read off the inputs and not off the code.
HostAt(k) == config.hosts[k]
RgOf(k) == config.hosts[k].value.resource_group
Hosts == DOMAIN config.hosts

\* The for loop of generate_inventory has been reached by a build.
Building == "build" \in ran /\ host >= 1
Exited == pc = "exited"

\* The only bastion of the group has tunneling disabled.
OnlyDisabled(rg) ==
    /\ Len(cloud.bastions[rg]) = 1
    /\ cloud.bastions[rg][1].enable_tunneling = "False"

\* The group lists a bastion and none of the listed has tunneling disabled.
BastionFound(rg) ==
    /\ cloud.bastions[rg] # <<>>
    /\ \A k \in DOMAIN cloud.bastions[rg] :
          cloud.bastions[rg][k].enable_tunneling # "False"

\* The VM of host k exists.
Resolvable(k) == <<RgOf(k), HostAt(k).name>> \in cloud.vms

IsResolvable(h) == <<h.value.resource_group, h.name>> \in cloud.vms

\* The hosts whose VM exists, in declaration order.
ResolvableHosts == SelectSeq(config.hosts, IsResolvable)

GroupHosts == inventory[config.group].hosts
HostVars == inventory["_meta"].hostvars
Printed(kind) == {k \in DOMAIN stdout : stdout[k].kind = kind}

\* C1: when some host's resource group has only a tunneling-disabled bastion,
\* the build ends with exit status 1, has launched no tunnel and has printed
\* no inventory, wherever that host stands in the declaration order.
C1_AbortBeforeAnyLaunch ==
    (Exited /\ Building /\ \E k \in Hosts : OnlyDisabled(RgOf(k)))
        => /\ exit_code = 1
           /\ launched = <<>>
           /\ Printed("json") = {}

\* The group lists a bastion that has tunneling enabled.
EnabledBastion(rg) ==
    \E k \in DOMAIN cloud.bastions[rg] :
        cloud.bastions[rg][k].enable_tunneling = "True"

\* What C2 says of a build: hosts whose VM lookup fails are skipped and
\* nothing else.  No tunnel, no group entry and no hostvars entry is ever made
\* for them, the run ends with exit status 0, and the printed document holds
\* exactly the resolvable hosts in declaration order, one tunnel launched for
\* each.
UnresolvedHostsSkipped ==
    /\ exc = None /\ fatal = None
    /\ Len(launched) = Len(GroupHosts)
    /\ Len(GroupHosts) <= Len(ResolvableHosts)
    /\ DOMAIN HostVars = Range(GroupHosts)
    /\ \A j \in DOMAIN GroupHosts :
          /\ GroupHosts[j] = ResolvableHosts[j].name
          /\ ArgOf(launched[j], "--target-resource-id")
               = VmId(ResolvableHosts[j].value.resource_group,
                      ResolvableHosts[j].name)
    /\ Exited =>
          /\ exit_code = 0
          /\ Len(GroupHosts) = Len(ResolvableHosts)
          /\ stdout = <<json_dumps(inventory,
                                   IF args.list THEN "2" ELSE None)>>

\* C2, as stated: when every host's resource group has a tunneling-enabled
\* bastion, the hosts whose VM lookup fails are skipped, the run ends with
\* exit status 0 and the document holds the other hosts in declaration order.
C2_EnabledBastionSuffices ==
    (Building /\ \A k \in Hosts : EnabledBastion(RgOf(k)))
        => UnresolvedHostsSkipped

\* C2, amended: when every host's resource group lists a bastion and lists
\* none that has tunneling disabled, the hosts whose VM lookup fails are
\* skipped, the run ends with exit status 0 and the document holds the other
\* hosts in declaration order.
C2_UnresolvedHostsSkipped ==
    (Building /\ \A k \in Hosts : BastionFound(RgOf(k)))
        => UnresolvedHostsSkipped

\* C2 witness: a finished build of three hosts, of a group that lists two
\* bastions, in which the second host could not be resolved: the document
\* holds the first and the third, in that order.
C2_Witness ==
    /\ Exited /\ Building /\ exit_code = 0
    /\ \A k \in Hosts : BastionFound(RgOf(k))
    /\ \E k \in Hosts : Len(cloud.bastions[RgOf(k)]) = 2
    /\ Len(config.hosts) = 3
    /\ Resolvable(1) /\ ~Resolvable(2) /\ Resolvable(3)
    /\ GroupHosts = <<HostAt(1).name, HostAt(3).name>>
    /\ Len(launched) = 2

\* C3: when all N hosts resolve, the document has N host entries and each
\* host's hostvars carry its configured ansible_port and an ansible_host that
\* is the configured one, or 127.0.0.1 when the configuration gives none.
C3_HostvarsDefaulted ==
    (Exited /\ Building
       /\ \A k \in Hosts : BastionFound(RgOf(k)) /\ Resolvable(k))
        => /\ Len(GroupHosts) = Len(config.hosts)
           /\ \A k \in Hosts :
                 /\ HostAt(k).name \in DOMAIN HostVars
                 /\ LET hv == HostVars[HostAt(k).name]
                        value == HostAt(k).value
                    IN /\ "ansible_port" \in DOMAIN hv
                       /\ hv.ansible_port = value.ansible_port
                       /\ "ansible_host" \in DOMAIN hv
                       /\ hv.ansible_host =
                            IF "ansible_host" \in DOMAIN value
                            THEN value.ansible_host
                            ELSE "127.0.0.1"

\* C4: whatever the flags, at most one of build, list and kill begins in one
\* invocation, exactly one has begun when the invocation ends (az being
\* installed), and build is the one exactly when neither flag is given.
C4_ExactlyOneCommand ==
    /\ Cardinality(ran) <= 1
    /\ (Exited /\ env.az) =>
          /\ Cardinality(ran) = 1
          /\ "build" \in ran <=> (~args.list_tunnels /\ ~args.kill_tunnels)

\* C5: a process that exits between being enumerated and being inspected does
\* not abort list_tunnels(): no call of it ends in NoSuchProcess, nor in its
\* subclass ZombieProcess for a process that exited and was not reaped.
C5_ScanToleratesExit ==
    ~(exc \in {"NoSuchProcess", "ZombieProcess"} /\ excAt \in ScanSites)

\* C6: once the kill command has collected its pids, a pid that is gone when
\* its turn comes is skipped: the command does not fail, and every collected
\* pid that still exists when the command ends was sent the signal.
C6_KillSkipsGonePid ==
    (Exited /\ kill_at >= 1)
        => /\ exc = None
           /\ exit_code = 0
           /\ \A j \in DOMAIN tunnel_pids :
                 tunnel_pids[j] \in signalled \/ tunnel_pids[j] \notin DOMAIN procs

\* The list command has printed all it prints.
ListFinished == "list" \in ran /\ pc = "if_kill_tunnels"

\* C9: the list command never indexes past the end of a re-scanned list, and
\* what it has printed when it finishes is one view of the process table:
\* either the single line "No active tunnels found." with no tunnel having
\* been there all along, or one line per process, no pid twice, no tunnel
\* missing that was there all along.
C9_ListPrintsOneView ==
    /\ ~(exc = "IndexError" /\ excAt = "list_item")
    /\ ListFinished =>
          \/ /\ Len(stdout) = 1
             /\ stdout[1].kind = "text"
             /\ steady = {}
          \/ /\ Len(stdout) >= 1
             /\ Printed("json") = DOMAIN stdout
             /\ \A j, k \in DOMAIN stdout :
                   j # k => json_loads(stdout[j]).pid # json_loads(stdout[k]).pid
             /\ steady \subseteq {json_loads(stdout[k]).pid : k \in DOMAIN stdout}

\* The listing bastion_name was applied to.
Listing == cloud.bastions["rg1"]
AnyDisabled ==
    \E k \in DOMAIN Listing : Listing[k].enable_tunneling = "False"

\* C7 as claimed: bastion_name returns None when the listing is empty or any
\* bastion in it has tunneling disabled, and otherwise the name of the first
\* entry.
C7_FirstEntry ==
    pc = "returned" =>
        ret = IF Listing = <<>> \/ AnyDisabled THEN None ELSE Listing[1].name

\* C7 amended: bastion_name returns None when the listing is empty or any
\* bastion in it has tunneling disabled, and otherwise the name of the last
\* entry.
C7_LastEntry ==
    pc = "returned" =>
        ret = IF Listing = <<>> \/ AnyDisabled
              THEN None
              ELSE Listing[Len(Listing)].name

\* C7 witness: a listing without a disabled bastion whose first and last
\* names differ, answered with the last.
C7_Witness ==
    /\ pc = "returned"
    /\ Len(Listing) >= 2
    /\ ~AnyDisabled
    /\ Listing[1].name # Listing[Len(Listing)].name
    /\ ret = Listing[Len(Listing)].name

FatalKinds == {"ToolNotFound", "CapabilityMissing", "CredentialUnavailable",
               "ConfigUnreadable", "BastionNotFound"}

\* C8: every fatal outcome ends with exit status 1 after exactly one printed
\* line, which is a message and not an inventory, and with no unhandled
\* exception.
C8_FatalPrintsOneLine ==
    fatal \in FatalKinds
        => /\ exit_code = 1
           /\ exc = None
           /\ Len(stdout) = 1
           /\ stdout[1].kind = "text"

\* The values a build can resolve.
ResolvedBastions ==
    UNION {{l[k].name : k \in DOMAIN l} : l \in RgListings}
ResolvedIds == {VmId(HostAt(k).value.resource_group, HostAt(k).name) : k \in Hosts}

\* C10: every tunnel launched carries the name of a bastion and the id of a
\* configured VM, never None, and the hosts of the inventory are exactly the
\* hosts a tunnel was launched for, in the same order, while the control
\* plane changes between the lookups.
C10_LaunchesResolved ==
    Building =>
        /\ \A j \in DOMAIN launched :
              /\ ArgOf(launched[j], "--name") \in ResolvedBastions
              /\ ArgOf(launched[j], "--target-resource-id") \in ResolvedIds
              /\ None \notin Range(launched[j])
        /\ Len(GroupHosts) = Len(launched)
        /\ DOMAIN HostVars = Range(GroupHosts)
        /\ \A j \in DOMAIN GroupHosts :
              \E k \in Hosts :
                 /\ HostAt(k).name = GroupHosts[j]
                 /\ ArgOf(launched[j], "--target-resource-id")
                      = VmId(RgOf(k), HostAt(k).name)
                 /\ ArgOf(launched[j], "--resource-group") = RgOf(k)

\* C10 witness: after a first tunnel was launched, the bastion of a later
\* host went away between its two lookups; the launch for that host was
\* refused and the host is not in the inventory.
C10_Witness ==
    /\ Building
    /\ exc = "TypeError"
    /\ bastion = None
    /\ Len(launched) >= 1
    /\ HostAt(host).name \notin Range(GroupHosts)

====
